---- MODULE Spec2Model ----
(***************************************************************************)
(* Model of the air-quality ETL pipeline (backend/etl): the extractor      *)
(* (extract.py), the transformer (transform.py), the loader (load.py) and  *)
(* the orchestrator / scheduler (etl_pipeline.py).                         *)
(*                                                                         *)
(* Texts are sequences of tokens (a whitespace token is " "), timestamps   *)
(* are whole hours, and a null (NaN / NaT / SQL NULL) is the value NaT.    *)
(***************************************************************************)
EXTENDS Integers, Sequences, FiniteSets, TLC

VARIABLES
    \* ---- destination store (one PostgreSQL table) ----
    tblExists,      \* the target table exists
    tblColumns,     \* the table's columns: a set of [name, type]
    idxExists,      \* the unique index idx_unique_site_time exists
    tblRows,        \* the table's rows, in insertion order
    \* ---- the call of load() in progress, or the last one ----
    ldPc,           \* "idle" | "called" | "reconciled" | "returned" | "raised"
    ldDf,           \* its DataFrame argument: [ok, rows] (ok = FALSE: None)
    ldInserted,     \* inserted_count of the call (0 until the insert ran)
    ldPhase,        \* the transaction the call reached: 0 (none), 1 or 2
    ldDbFault,      \* the connection / store failed during the call
    ldRowsBefore,   \* tblRows when the call started
    ldRepeat,       \* the call repeats the DataFrame of the call before it
    \* ---- the call of extract_measurements() / extract_stations() ----
    exPc,           \* "idle" | "export" | "download" | "sleep" | "request" |
                    \* "blocked" | "returned"
    exKind,         \* "measurements" | "stations"
    exMaxRetries,   \* max_retries of the call
    exAttempt,      \* attempt, the loop variable
    exFileId,       \* file_id
    exExportReqs,   \* export requests issued by the call
    exExportFailed, \* the export request of the call failed
    exDownloadReqs, \* download requests issued by the call
    exSleeps,       \* time.sleep(wait_seconds) calls made by the call
    exOutcomes,     \* per download attempt: TRUE = 2xx, FALSE = failed
    exLastBody,     \* the body of the last 2xx response, as received
    exResult,       \* the value returned: Some(text) or None
    \* ---- logging ----
    errLog,         \* error-level entries logged since the cycle / call began
    \* ---- the process: etl_pipeline.py ----
    pc,             \* "none" | "run" | "extract_m" | "extract_s" | "transform" | "load" |
                    \* "schedule" | "sleep" | "exited"
    env,            \* the configuration values read from the environment
    firstRun,       \* the run_etl() in flight is the one before the loop
    cycles,         \* cycles started so far
    measurements,   \* run_etl: measurements
    locations,      \* run_etl: locations
    trResult,       \* run_etl: what transform(...) did: [kind, df], kind "unset" before it
    cycOutcome,     \* how the last finished cycle ended: "none" | "ok" | "failed"
    cycExtractFailed, \* an extraction call of the cycle returned None
    cycStoreBefore, \* the store when the cycle started
    clock,          \* the wall clock (Europe/Paris) as last read, in ticks
    nextRun,        \* next_run
    exitCode,       \* "running", then the exit code of the process
    stoppedIn       \* where the interrupt found the process ("none": no interrupt)

storeVars == <<tblExists, tblColumns, idxExists, tblRows>>
loadVars  == <<ldPc, ldDf, ldInserted, ldPhase, ldDbFault, ldRowsBefore, ldRepeat>>
exVars    == <<exPc, exKind, exMaxRetries, exAttempt, exFileId, exExportReqs,
               exExportFailed, exDownloadReqs, exSleeps, exOutcomes, exLastBody, exResult>>
cycleVars == <<pc, env, firstRun, cycles, measurements, locations, trResult, cycOutcome,
               cycExtractFailed, cycStoreBefore, exitCode, stoppedIn>>
schedVars == <<clock, nextRun>>
orchVars  == <<cycleVars, schedVars>>
vars == <<storeVars, loadVars, exVars, errLog, orchVars>>

----------------------------------------------------------------------------
(* Values *)

\* A missing value: pandas NaN / NaT, SQL NULL.
NaT == -1

\* An Optional value: Some(v) or Python's None.
Some(v) == [ok |-> TRUE, val |-> v]
None == [ok |-> FALSE, val |-> <<>>]

\* transform has not been called in the cycle.
NoTransform == [kind |-> "unset", df |-> None]

----------------------------------------------------------------------------
(* Bounds of the model *)

\* Largest number of rows the table is let to hold.
MaxRows == 4
\* Largest number of records of one DataFrame handed to load.
MaxBatch == 2
\* Largest max_retries a direct call of extract_measurements is given.
MaxRetriesArg == 4
\* Ticks of the clock per second.
TicksPerSecond == 1
\* Hours of wall-clock instants the scheduler's computation is checked over.
SchedHours == 2
\* Cycles a run of the process is followed for.
MaxCycles == 2

\* Data lines of a measurements text and of a stations text given to transform.
MaxMeasLines == 2
MaxStationLines == 2

----------------------------------------------------------------------------
(* Text helpers *)

IsSpace(c) == c = " "

RECURSIVE LStrip(_)
LStrip(s) == IF s # <<>> /\ IsSpace(Head(s)) THEN LStrip(Tail(s)) ELSE s

RECURSIVE RStrip(_)
RStrip(s) ==
    IF s # <<>> /\ IsSpace(s[Len(s)]) THEN RStrip(SubSeq(s, 1, Len(s) - 1)) ELSE s

\* The text returned as received.
NoStrip(t) == t

\* str.strip(): leading and trailing whitespace removed, inner whitespace kept.
Strip(s) == RStrip(LStrip(s))

----------------------------------------------------------------------------
(* Scheduler arithmetic: etl_pipeline.py, the loop of __main__ *)

MinuteTicks == 60 * TicksPerSecond
HourTicks == 60 * MinuteTicks

\* dt.replace(minute=m, second=0, microsecond=0)
ReplaceMinute(dt, m) == (dt \div HourTicks) * HourTicks + m * MinuteTicks

\* next_run = (now + timedelta(hours=1)).replace(minute=1, second=0, microsecond=0)
NextRun(now) == ReplaceMinute(now + HourTicks, 1)

\* sleep_time = max((next_run - now).total_seconds(), 0)
SleepTime(now, next) == IF next - now > 0 THEN next - now ELSE 0

\* The process as the other specifications hold it: not started.
ProcessNotStarted ==
    /\ pc = "none"
    /\ env = <<>>
    /\ firstRun = FALSE
    /\ cycles = 0
    /\ measurements = None
    /\ locations = None
    /\ trResult = NoTransform
    /\ cycOutcome = "none"
    /\ cycExtractFailed = FALSE
    /\ cycStoreBefore = <<>>
    /\ clock = 0
    /\ nextRun = 0
    /\ exitCode = "running"
    /\ stoppedIn = "none"

----------------------------------------------------------------------------
(* Extractor: extract.py *)

\* What the provider does with a request: a 2xx response with a body, an
\* error (a network error, a non-2xx status, a timeout that expired), or no
\* answer at all.
OkResponse(text) == [kind |-> "ok", text |-> text]
ErrorResponse == [kind |-> "error", text |-> <<>>]
NoResponse == [kind |-> "hang", text |-> <<>>]

\* for attempt in range(1, max_retries + 1): the loop body runs for attempt.
LoopRunsShort(attempt, maxRetries) == attempt < maxRetries

LoopRuns(attempt, maxRetries) == attempt <= maxRetries

\* The export request failed: fall through to the download loop.
AfterExportErrorFallThrough(maxRetries) == "download"

\* except requests.RequestException: logger.error(...); return None
AfterExportError(maxRetries) == "returned"

ExtractIdle ==
    /\ exPc = "idle"
    /\ exKind = "measurements"
    /\ exMaxRetries = 0
    /\ exAttempt = 0
    /\ exFileId = <<>>
    /\ exExportReqs = 0
    /\ exExportFailed = FALSE
    /\ exDownloadReqs = 0
    /\ exSleeps = 0
    /\ exOutcomes = <<>>
    /\ exLastBody = <<>>
    /\ exResult = None

\* extract_measurements(api_key, max_retries=maxRetries) is entered.
StartExtractMeasurements(maxRetries) ==
    /\ exPc' = "export"
    /\ exKind' = "measurements"
    /\ exMaxRetries' = maxRetries
    /\ exAttempt' = 0
    /\ exFileId' = <<>>
    /\ exExportReqs' = 0
    /\ exExportFailed' = FALSE
    /\ exDownloadReqs' = 0
    /\ exSleeps' = 0
    /\ exOutcomes' = <<>>
    /\ exLastBody' = <<>>
    /\ exResult' = None

\* The loop is (re-)entered with attempt a: the next download, or the end of
\* the loop: logger.error("Failure : max attempts number reached."); return None
EnterLoop(a) ==
    /\ exAttempt' = a
    /\ IF LoopRuns(a, exMaxRetries)
       THEN exPc' = "download" /\ exResult' = exResult /\ errLog' = errLog
       ELSE exPc' = "returned" /\ exResult' = None /\ errLog' = errLog + 1

\* The export request (no timeout is passed): requests.get(.../MoyH/export...).
ExportRequestStep(resp) ==
    /\ exPc = "export"
    /\ exExportReqs' = exExportReqs + 1
    /\ exExportFailed' = (resp.kind = "error")
    /\ CASE resp.kind = "hang" ->
              /\ exPc' = "blocked"
              /\ UNCHANGED <<exAttempt, exFileId, exResult, errLog>>
         [] resp.kind = "error" ->
              /\ errLog' = errLog + 1
              /\ exPc' = AfterExportError(exMaxRetries)
              /\ exAttempt' = IF exPc' = "download" THEN 1 ELSE exAttempt
              /\ exResult' = None
              /\ UNCHANGED exFileId
         [] resp.kind = "ok" ->
              /\ exFileId' = Strip(resp.text)
              /\ EnterLoop(1)
    /\ UNCHANGED <<exKind, exMaxRetries, exDownloadReqs, exSleeps, exOutcomes, exLastBody>>

\* One download attempt, with timeout=timeout: no answer becomes an error.
DownloadAttemptStep(resp) ==
    /\ exPc = "download"
    /\ exDownloadReqs' = exDownloadReqs + 1
    /\ exOutcomes' = Append(exOutcomes, resp.kind = "ok")
    /\ IF resp.kind = "ok"
       THEN /\ exLastBody' = resp.text
            /\ exResult' = Some(Strip(resp.text))
            /\ exPc' = "returned"
       ELSE /\ exPc' = "sleep"
            /\ UNCHANGED <<exLastBody, exResult>>
    /\ UNCHANGED <<exKind, exMaxRetries, exAttempt, exFileId, exExportReqs,
                   exExportFailed, exSleeps, errLog>>

\* time.sleep(wait_seconds) after a failed attempt, then the next iteration.
RetrySleepStep ==
    /\ exPc = "sleep"
    /\ exSleeps' = exSleeps + 1
    /\ EnterLoop(exAttempt + 1)
    /\ UNCHANGED <<exKind, exMaxRetries, exFileId, exExportReqs, exExportFailed,
                   exDownloadReqs, exOutcomes, exLastBody>>

\* extract_stations(api_key) is entered.
StartExtractStations ==
    /\ exPc' = "request"
    /\ exKind' = "stations"
    /\ exMaxRetries' = 0
    /\ exAttempt' = 0
    /\ exFileId' = <<>>
    /\ exExportReqs' = 0
    /\ exExportFailed' = FALSE
    /\ exDownloadReqs' = 0
    /\ exSleeps' = 0
    /\ exOutcomes' = <<>>
    /\ exLastBody' = <<>>
    /\ exResult' = None

\* The one request of extract_stations (no timeout is passed, no retry).
StationsRequestStep(resp) ==
    /\ exPc = "request"
    /\ exExportReqs' = exExportReqs + 1
    /\ exExportFailed' = (resp.kind = "error")
    /\ CASE resp.kind = "hang" ->
              exPc' = "blocked" /\ UNCHANGED <<exLastBody, exResult, errLog>>
         [] resp.kind = "error" ->
              /\ errLog' = errLog + 1
              /\ exPc' = "returned"
              /\ exResult' = None
              /\ UNCHANGED exLastBody
         [] resp.kind = "ok" ->
              /\ exLastBody' = resp.text
              /\ exResult' = Some(Strip(resp.text))
              /\ exPc' = "returned"
              /\ UNCHANGED errLog
    /\ UNCHANGED <<exKind, exMaxRetries, exAttempt, exFileId, exDownloadReqs,
                   exSleeps, exOutcomes>>

----------------------------------------------------------------------------
(* The provider's answers *)

\* Identifier texts the export endpoint answers with.
FileIdTexts == { <<"f", "1">>, <<"f", "2", " ">> }

\* Measurement CSV bodies: "H" is the header line with the provider's columns,
\* "X" a header without them, "m1".. are data lines, " " is whitespace.
MeasurementBodies ==
    { <<>>, <<" ">>, <<"H", "m1", "m2">>, <<" ", "H", "m3", " ">>, <<"X", "m1">> }

\* Station CSV bodies: "S" is the header line, "s1".. are data lines.
StationBodies == { <<>>, <<"S", "s1", " ">>, <<"S", "s1", "s2", "s3">>, <<"X", "s1">> }

ExportResponses == {ErrorResponse, NoResponse} \cup {OkResponse(t) : t \in FileIdTexts}

DownloadResponses ==
    {ErrorResponse, NoResponse} \cup {OkResponse(t) : t \in MeasurementBodies}

StationsResponses ==
    {ErrorResponse, NoResponse} \cup {OkResponse(t) : t \in StationBodies}

----------------------------------------------------------------------------
(* Loader: load.py *)

\* The columns of a merged DataFrame that the model carries, in order.
DfColumnNames == <<"start_time", "end_time", "site_name", "raw_value", "city", "longitude">>

\* pandas dtype of a column of the DataFrame df (a sequence of records).
DfDtype(df, col) ==
    CASE col \in {"start_time", "end_time"} -> "datetime64[ns]"
      [] col = "raw_value" ->
            IF \A i \in DOMAIN df : df[i].raw_value # NaT THEN "int64" ELSE "float64"
      [] col = "longitude" -> "float64"
      [] OTHER -> "object"

\* Every missing column created as TEXT.
SqlTypeText(dtype) == "TEXT"

\* The SQL type load infers for a missing column from its dtype.
SqlType(dtype) ==
    IF dtype \in {"int64", "int32"} THEN "INTEGER"
    ELSE IF dtype \in {"float64", "float32"} THEN "FLOAT"
    ELSE IF dtype \in {"datetime64[ns]"} THEN "TIMESTAMP"
    ELSE "TEXT"

ColumnNames(cols) == {c.name : c \in cols}

\* missing_columns, each with the type it is created with.
MissingColumns(df, cols) ==
    {[name |-> DfColumnNames[i], type |-> SqlType(DfDtype(df, DfColumnNames[i]))] :
        i \in {j \in DOMAIN DfColumnNames : DfColumnNames[j] \notin ColumnNames(cols)}}

KeyColumnNames == {"site_name", "start_time", "end_time"}

\* The natural key of a record.
Key(r) == <<r.site_name, r.start_time, r.end_time>>

KeyHasNull(r) == r.start_time = NaT \/ r.end_time = NaT

\* Two keys are equal for the unique index: a NULL is distinct from everything.
SameKey(a, b) == ~KeyHasNull(a) /\ ~KeyHasNull(b) /\ Key(a) = Key(b)

Conflicts(rows, r) == \E i \in DOMAIN rows : SameKey(rows[i], r)

\* CREATE UNIQUE INDEX is refused over rows that already repeat a key.
UniqueOver(rows) == \A i, j \in DOMAIN rows : i # j => ~SameKey(rows[i], rows[j])

\* df["site_name"] = df["site_name"].str.strip()
TrimSiteNames(df) == [i \in DOMAIN df |-> [df[i] EXCEPT !.site_name = Strip(@)]]

\* INSERT ... ON CONFLICT (site_name, start_time, end_time) DO NOTHING, record
\* by record: a record whose key is already in the table (or earlier in the
\* statement) is skipped, the others are appended.
RECURSIVE InsertSkipping(_, _)
InsertSkipping(rows, recs) ==
    IF recs = <<>> THEN rows
    ELSE InsertSkipping(IF Conflicts(rows, Head(recs)) THEN rows
                        ELSE Append(rows, Head(recs)), Tail(recs))

\* An upsert: a conflicting record overwrites the stored row.
RECURSIVE Upsert(_, _)
Upsert(rows, recs) ==
    IF recs = <<>> THEN rows
    ELSE Upsert(IF Conflicts(rows, Head(recs))
                THEN [i \in DOMAIN rows |->
                        IF SameKey(rows[i], Head(recs)) THEN Head(recs) ELSE rows[i]]
                ELSE Append(rows, Head(recs)), Tail(recs))

OnConflictUpdate(rows, recs) == [rows |-> Upsert(rows, recs), error |-> FALSE]

\* stmt.on_conflict_do_nothing(index_elements=[...]) executed on the table.
OnConflictDoNothing(rows, recs) == [rows |-> InsertSkipping(rows, recs), error |-> FALSE]

\* The count of attempted rows.
RowCountAttempted(before, after, recs) == Len(recs)

\* result_insert.rowcount: the rows the statement inserted.
RowCount(before, after, recs) == Len(after) - Len(before)

\* Transaction 1 with CREATE UNIQUE INDEX issued without the look-up in
\* pg_indexes: on a table that has the index the statement raises.
ReconcileNoIndexCheck(df) ==
    LET existing == IF tblExists THEN tblColumns ELSE {}
        missing  == IF df.ok THEN MissingColumns(df.val, existing) ELSE {}
        cols     == existing \cup missing
        failed   == [error |-> TRUE, columns |-> tblColumns, index |-> idxExists]
    IN  IF ~df.ok THEN failed
        ELSE IF missing # {} /\ ~tblExists THEN failed
        ELSE IF idxExists THEN failed
        ELSE IF ~tblExists \/ ~(KeyColumnNames \subseteq ColumnNames(cols))
                \/ ~UniqueOver(tblRows) THEN failed
        ELSE [error |-> FALSE, columns |-> cols, index |-> TRUE]

\* Transaction 1 on a store where statements on a missing table are accepted:
\* the columns and the index are not created and nothing raises.
ReconcileProceeds(df) ==
    LET existing == IF tblExists THEN tblColumns ELSE {}
        missing  == IF df.ok THEN MissingColumns(df.val, existing) ELSE {}
        cols     == existing \cup missing
        failed   == [error |-> TRUE, columns |-> tblColumns, index |-> idxExists]
    IN  IF ~df.ok THEN failed
        ELSE IF ~tblExists THEN [error |-> FALSE, columns |-> tblColumns, index |-> idxExists]
        ELSE IF idxExists THEN [error |-> FALSE, columns |-> cols, index |-> TRUE]
        ELSE IF ~(KeyColumnNames \subseteq ColumnNames(cols))
                \/ ~UniqueOver(tblRows) THEN failed
        ELSE [error |-> FALSE, columns |-> cols, index |-> TRUE]

\* Transaction 1 of load (schema reconciliation) on the store as it is: the
\* columns and the index it commits, or error when a statement of it raises
\* (df.columns of None, ALTER TABLE or CREATE INDEX on a missing table,
\* CREATE UNIQUE INDEX over repeated keys).
Reconcile(df) ==
    LET existing == IF tblExists THEN tblColumns ELSE {}
        missing  == IF df.ok THEN MissingColumns(df.val, existing) ELSE {}
        cols     == existing \cup missing
        failed   == [error |-> TRUE, columns |-> tblColumns, index |-> idxExists]
    IN  IF ~df.ok THEN failed
        ELSE IF missing # {} /\ ~tblExists THEN failed
        ELSE IF idxExists THEN [error |-> FALSE, columns |-> cols, index |-> TRUE]
        ELSE IF ~tblExists \/ ~(KeyColumnNames \subseteq ColumnNames(cols))
                \/ ~UniqueOver(tblRows) THEN failed
        ELSE [error |-> FALSE, columns |-> cols, index |-> TRUE]

\* Transaction 2 of load (insertion) on the store as it is.
Insertion(df) ==
    IF ~tblExists \/ ~idxExists THEN [rows |-> tblRows, error |-> TRUE]
    ELSE OnConflictDoNothing(tblRows, TrimSiteNames(df.val))

\* load(df, ...) is entered.
StartLoad(df, repeat) ==
    /\ ldPc' = "called"
    /\ ldDf' = df
    /\ ldInserted' = 0
    /\ ldPhase' = 0
    /\ ldDbFault' = FALSE
    /\ ldRowsBefore' = tblRows
    /\ ldRepeat' = repeat

\* with engine.begin() as connection: ... (schema reconciliation). dbOk = FALSE:
\* the connection or the store fails; the transaction is rolled back.
LoadReconcileStep(dbOk) ==
    /\ ldPc = "called"
    /\ ldPhase' = 1
    /\ LET res == Reconcile(ldDf)
       IN  IF dbOk /\ ~res.error
           THEN /\ tblColumns' = res.columns
                /\ idxExists' = res.index
                /\ ldPc' = "reconciled"
                /\ ldDbFault' = FALSE
           ELSE /\ UNCHANGED <<tblColumns, idxExists>>
                /\ ldPc' = "raised"
                /\ ldDbFault' = ~dbOk
    /\ UNCHANGED <<tblExists, tblRows, ldDf, ldInserted, ldRowsBefore, ldRepeat>>

\* with engine.begin() as connection: ... (insertion), then the log of the count.
LoadInsertStep(dbOk) ==
    /\ ldPc = "reconciled"
    /\ ldPhase' = 2
    /\ LET res == Insertion(ldDf)
       IN  IF dbOk /\ ~res.error
           THEN /\ tblRows' = res.rows
                /\ ldInserted' = RowCount(tblRows, res.rows, ldDf.val)
                /\ ldPc' = "returned"
                /\ ldDbFault' = FALSE
           ELSE /\ UNCHANGED <<tblRows, ldInserted>>
                /\ ldPc' = "raised"
                /\ ldDbFault' = ~dbOk
    /\ UNCHANGED <<tblExists, tblColumns, idxExists, ldDf, ldRowsBefore, ldRepeat>>

----------------------------------------------------------------------------
(* The loader alone: any sequence of load calls on the store *)

MkRec(site, st, et, v) ==
    [site_name |-> site, start_time |-> st, end_time |-> et, raw_value |-> v,
     city |-> 1, longitude |-> 2]

\* Records transform can produce: untrimmed site names, coerced timestamps.
LoadRecords ==
    { MkRec(<<"A">>, 10, 11, 1),
      MkRec(<<" ", "A", " ">>, 10, 11, 2),
      MkRec(<<"B">>, 10, 11, 1),
      MkRec(<<"A">>, NaT, 11, 1),
      MkRec(<<"B", " ">>, 10, NaT, 2) }

Batches == UNION {[1..n -> LoadRecords] : n \in 1..MaxBatch}

KeyColumns ==
    { [name |-> "site_name", type |-> "TEXT"],
      [name |-> "start_time", type |-> "TIMESTAMP"],
      [name |-> "end_time", type |-> "TIMESTAMP"] }

\* The store before the first cycle: no table, or an empty table created by
\* hand with the key columns, with or without the unique index.
StoreInit ==
    /\ tblRows = <<>>
    /\ \/ tblExists = FALSE /\ tblColumns = {} /\ idxExists = FALSE
       \/ tblExists = TRUE /\ tblColumns = KeyColumns /\ idxExists \in BOOLEAN

LoadIdle ==
    /\ ldPc = "idle"
    /\ ldDf = None
    /\ ldInserted = 0
    /\ ldPhase = 0
    /\ ldDbFault = FALSE
    /\ ldRowsBefore = <<>>
    /\ ldRepeat = FALSE

\* No call of load has been made in the cycle that begins.
ResetLoad ==
    /\ ldPc' = "idle"
    /\ ldDf' = None
    /\ ldInserted' = 0
    /\ ldPhase' = 0
    /\ ldDbFault' = FALSE
    /\ ldRowsBefore' = <<>>
    /\ ldRepeat' = FALSE

\* Room in the bounded table for every record of df.
Fits(df) == Len(tblRows) + Len(df) <= MaxRows

CallLoad ==
    /\ ldPc \in {"idle", "returned", "raised"}
    /\ \E df \in Batches : Fits(df) /\ StartLoad(Some(df), FALSE)
    /\ UNCHANGED <<storeVars, exVars, errLog, orchVars>>

\* The same DataFrame is loaded again, right after a load of it that returned.
CallLoadAgain ==
    /\ ldPc = "returned"
    /\ Fits(ldDf.val)
    /\ StartLoad(ldDf, TRUE)
    /\ UNCHANGED <<storeVars, exVars, errLog, orchVars>>

LoadReconcile ==
    (\E dbOk \in BOOLEAN : LoadReconcileStep(dbOk)) /\ UNCHANGED <<exVars, errLog, orchVars>>

LoadInsert ==
    (\E dbOk \in BOOLEAN : LoadInsertStep(dbOk)) /\ UNCHANGED <<exVars, errLog, orchVars>>

InitLoad == StoreInit /\ LoadIdle /\ ExtractIdle /\ errLog = 0 /\ ProcessNotStarted

NextLoad == CallLoad \/ CallLoadAgain \/ LoadReconcile \/ LoadInsert

SpecLoad == InitLoad /\ [][NextLoad]_vars

----------------------------------------------------------------------------
(* The extractor alone: direct calls with any max_retries *)

CallExtractMeasurements ==
    /\ exPc \in {"idle", "returned"}
    /\ \E m \in 1..MaxRetriesArg : StartExtractMeasurements(m)
    /\ errLog' = 0
    /\ UNCHANGED <<storeVars, loadVars, orchVars>>

CallExtractStations ==
    /\ exPc \in {"idle", "returned"}
    /\ StartExtractStations
    /\ errLog' = 0
    /\ UNCHANGED <<storeVars, loadVars, orchVars>>

ExportRequest ==
    (\E resp \in ExportResponses : ExportRequestStep(resp)) /\ UNCHANGED <<storeVars, loadVars, orchVars>>

DownloadAttempt ==
    (\E resp \in DownloadResponses : DownloadAttemptStep(resp))
    /\ UNCHANGED <<storeVars, loadVars, orchVars>>

RetrySleep == RetrySleepStep /\ UNCHANGED <<storeVars, loadVars, orchVars>>

StationsRequest ==
    (\E resp \in StationsResponses : StationsRequestStep(resp))
    /\ UNCHANGED <<storeVars, loadVars, orchVars>>

InitFetch == StoreInit /\ LoadIdle /\ ExtractIdle /\ errLog = 0 /\ ProcessNotStarted

NextFetch ==
    \/ CallExtractMeasurements
    \/ CallExtractStations
    \/ ExportRequest
    \/ DownloadAttempt
    \/ RetrySleep
    \/ StationsRequest

SpecFetch == InitFetch /\ [][NextFetch]_vars

----------------------------------------------------------------------------
(* Transformer: transform.py *)

\* The data lines of the measurement CSV bodies: the projected columns.
MeasLine(tok) ==
    CASE tok = "m1" -> [start |-> "2024/05/01 10:00:00", end |-> "2024/05/01 11:00:00",
                        code |-> "FR001", site |-> <<"A">>, raw |-> 1]
      [] tok = "m2" -> [start |-> "2024/05/01 11:00:00", end |-> "2024/05/01 12:00:00",
                        code |-> "FR001", site |-> <<"A", " ">>, raw |-> NaT]
      [] OTHER      -> [start |-> "01/05/2024 10h", end |-> "2024/05/01 11:00:00",
                        code |-> "FR002", site |-> <<" ", "B">>, raw |-> 2]

\* The data lines of the station CSV bodies.
StationLine(tok) ==
    CASE tok = "s1" -> [code |-> "FR001", city |-> 1, longitude |-> 2]
      [] tok = "s2" -> [code |-> "FR003", city |-> 2, longitude |-> NaT]
      [] OTHER      -> [code |-> "FR001", city |-> 3, longitude |-> 3]

\* pd.to_datetime(text, format="%Y/%m/%d %H:%M:%S", errors="coerce"): the hour
\* of a text in the format, NaT for any other text.
ParseTime(text) ==
    CASE text = "2024/05/01 10:00:00" -> 10
      [] text = "2024/05/01 11:00:00" -> 11
      [] text = "2024/05/01 12:00:00" -> 12
      [] OTHER -> NaT

\* One merged record: the renamed measurement fields and the station's.
Merged(m, city, longitude) ==
    [site_name |-> m.site, start_time |-> ParseTime(m.start),
     end_time |-> ParseTime(m.end), raw_value |-> m.raw,
     city |-> city, longitude |-> longitude]

\* The rows of the left join for one measurement: one per station with its
\* code, in the stations' order, or one with null station fields.
RECURSIVE Matches(_, _)
Matches(m, stations) ==
    IF stations = <<>> THEN <<>>
    ELSE (IF Head(stations).code = m.code
          THEN <<Merged(m, Head(stations).city, Head(stations).longitude)>>
          ELSE <<>>) \o Matches(m, Tail(stations))

\* pd.merge(df_measurements, df_stations, left_on="code site", right_on="Code",
\* how="left"), then drop, rename and to_datetime.
RECURSIVE MergeLeft(_, _)
MergeLeft(meas, stations) ==
    IF meas = <<>> THEN <<>>
    ELSE (IF Matches(Head(meas), stations) = <<>>
          THEN <<Merged(Head(meas), NaT, NaT)>>
          ELSE Matches(Head(meas), stations)) \o MergeLeft(Tail(meas), stations)

\* A test against None only: the empty text passes.
IsNotNone(t) == t.ok

\* Python truthiness of an Optional text: None and "" are false.
Truthy(t) == t.ok /\ t.val # <<>>

\* pd.read_csv of a body then the projection on the expected columns: the
\* data lines, or a KeyError when the header lacks them.
HasColumns(text, header) == Len(text) > 0 /\ Head(text) = header

DataLines(text) == Tail(text)

\* transform(measurements_text, locations_text): [kind, df] with kind "ok" (df
\* is the merged DataFrame), "none" (None is returned, an error is logged) or
\* "raise" (an exception leaves the function).
Transform(mt, lt) ==
    IF ~(Truthy(mt) /\ Truthy(lt)) THEN [kind |-> "none", df |-> None]
    ELSE IF ~HasColumns(mt.val, "H") \/ ~HasColumns(lt.val, "S")
         THEN [kind |-> "raise", df |-> None]
    ELSE [kind |-> "ok",
          df |-> Some(MergeLeft([i \in DOMAIN DataLines(mt.val) |-> MeasLine(DataLines(mt.val)[i])],
                                [i \in DOMAIN DataLines(lt.val) |-> StationLine(DataLines(lt.val)[i])]))]

\* logger.error("Pass both raw CSV text ..."): the error entries transform logs.
TransformLogged(res) == IF res.kind = "none" THEN 1 ELSE 0

----------------------------------------------------------------------------
(* Orchestrator: etl_pipeline.py *)

ConfigKeys == {"api_key", "db_username", "db_password", "db_server", "db_name", "table_name"}

\* missing = [k for k, v in raw_config.items() if not v]
MissingConfig(e) == {k \in ConfigKeys : ~Truthy(e[k])}

GoodEnv == [k \in ConfigKeys |-> Some(<<"v">>)]

\* Environments: every value set, or one of them unset or empty.
Envs ==
    {GoodEnv} \cup {[GoodEnv EXCEPT ![k] = v] : k \in ConfigKeys, v \in {None, Some(<<>>)}}

\* max_retries: int = 6, the value run_etl's call leaves to the default.
DefaultMaxRetries == 6

\* if x is None: raise RuntimeError(...): never raised.
RaiseForgotten(x) == FALSE

\* if x == "": raise RuntimeError(...): None passes the check.
RaiseIfEmptyText(x) == x.ok /\ x.val = <<>>

\* if x is None: raise RuntimeError(...)
RaiseIfNone(x) == ~x.ok

\* except RuntimeError: only the pipeline's own errors are caught.
CatchesOnlyRuntimeError(exc) == exc = "RuntimeError"

\* except Exception as e: every exception a step raises is an Exception.
CatchesException(exc) ==
    exc \in {"RuntimeError", "ValueError", "KeyError", "AttributeError", "DBError"}

CycleSteps == {"extract_m", "extract_s", "transform", "load"}

StoreNow == <<tblExists, tblColumns, idxExists, tblRows>>

\* The handler of run_etl logging below the error level.
FailWithQuietHandler(exc, logged) ==
    /\ cycOutcome' = "failed"
    /\ IF CatchesException(exc)
       THEN pc' = "schedule" /\ exitCode' = exitCode /\ errLog' = logged
       ELSE pc' = "exited" /\ exitCode' = "1" /\ errLog' = logged

\* An exception exc is raised inside the try of run_etl, after the failing
\* step logged `logged` error entries: the handler logs "ETL failed" and
\* run_etl returns, or the exception leaves run_etl and the process dies with
\* a traceback.
FailWith(exc, logged) ==
    /\ cycOutcome' = "failed"
    /\ IF CatchesException(exc)
       THEN pc' = "schedule" /\ exitCode' = exitCode /\ errLog' = logged + 1
       ELSE pc' = "exited" /\ exitCode' = "1" /\ errLog' = logged

Fail(exc) == FailWith(exc, errLog)

\* Time the clock may have advanced by between two readings.
Elapsed == {30 * TicksPerSecond, 30 * MinuteTicks, 59 * MinuteTicks}

\* Wall-clock instants the process may be started at.
StartClocks == {20 * TicksPerSecond, 15 * MinuteTicks}

\* run_etl() is entered: the log of the start, then get_config(), then the call
\* of extract_measurements.
BeginCycle ==
    /\ pc = "run"
    /\ cycles < MaxCycles
    /\ cycles' = cycles + 1
    /\ measurements' = None
    /\ locations' = None
    /\ trResult' = NoTransform
    /\ cycExtractFailed' = FALSE
    /\ cycStoreBefore' = StoreNow
    /\ ResetLoad
    /\ IF MissingConfig(env) # {}
       THEN /\ FailWith("ValueError", 0)
            /\ UNCHANGED exVars
       ELSE /\ pc' = "extract_m"
            /\ StartExtractMeasurements(DefaultMaxRetries)
            /\ errLog' = 0
            /\ UNCHANGED <<cycOutcome, exitCode>>
    /\ UNCHANGED <<storeVars, env, firstRun, schedVars, stoppedIn>>

CycExportRequest ==
    /\ pc = "extract_m"
    /\ \E resp \in ExportResponses : ExportRequestStep(resp)
    /\ UNCHANGED <<storeVars, loadVars, orchVars>>

CycDownloadAttempt ==
    /\ pc = "extract_m"
    /\ \E resp \in DownloadResponses : DownloadAttemptStep(resp)
    /\ UNCHANGED <<storeVars, loadVars, orchVars>>

CycRetrySleep ==
    /\ pc = "extract_m"
    /\ RetrySleepStep
    /\ UNCHANGED <<storeVars, loadVars, orchVars>>

\* measurements = extract_measurements(...); if measurements is None: raise;
\* then the call of extract_stations.
AfterMeasurements ==
    /\ pc = "extract_m"
    /\ exPc = "returned"
    /\ measurements' = exResult
    /\ cycExtractFailed' = ~exResult.ok
    /\ IF RaiseIfNone(exResult)
       THEN /\ Fail("RuntimeError")
            /\ UNCHANGED exVars
       ELSE /\ pc' = "extract_s"
            /\ StartExtractStations
            /\ UNCHANGED <<cycOutcome, exitCode, errLog>>
    /\ UNCHANGED <<trResult, storeVars, loadVars, env, firstRun, cycles, locations,
                   cycStoreBefore, schedVars, stoppedIn>>

CycStationsRequest ==
    /\ pc = "extract_s"
    /\ \E resp \in StationsResponses : StationsRequestStep(resp)
    /\ UNCHANGED <<storeVars, loadVars, orchVars>>

\* locations = extract_stations(...); if locations is None: raise
AfterStations ==
    /\ pc = "extract_s"
    /\ exPc = "returned"
    /\ locations' = exResult
    /\ cycExtractFailed' = (cycExtractFailed \/ ~exResult.ok)
    /\ IF RaiseIfNone(exResult)
       THEN Fail("RuntimeError")
       ELSE pc' = "transform" /\ UNCHANGED <<cycOutcome, exitCode, errLog>>
    /\ UNCHANGED <<trResult, storeVars, loadVars, exVars, env, firstRun, cycles, measurements,
                   cycStoreBefore, schedVars, stoppedIn>>

\* df = transform(...); if df is None: raise; then the call of load.
TransformStep ==
    /\ pc = "transform"
    /\ trResult' = Transform(measurements, locations)
    /\ LET res == Transform(measurements, locations)
           logged == errLog + TransformLogged(res)
       IN  CASE res.kind = "raise" ->
                  Fail("KeyError") /\ UNCHANGED loadVars
             [] res.kind = "none" /\ RaiseIfNone(res.df) ->
                  FailWith("RuntimeError", logged) /\ UNCHANGED loadVars
             [] OTHER ->
                  /\ pc' = "load"
                  /\ StartLoad(res.df, FALSE)
                  /\ errLog' = logged
                  /\ UNCHANGED <<cycOutcome, exitCode>>
    /\ UNCHANGED <<storeVars, exVars, env, firstRun, cycles, measurements, locations,
                   cycExtractFailed, cycStoreBefore, schedVars, stoppedIn>>

CycLoadReconcile ==
    /\ pc = "load"
    /\ \E dbOk \in BOOLEAN : LoadReconcileStep(dbOk)
    /\ UNCHANGED <<exVars, errLog, orchVars>>

CycLoadInsert ==
    /\ pc = "load"
    /\ \E dbOk \in BOOLEAN : LoadInsertStep(dbOk)
    /\ UNCHANGED <<exVars, errLog, orchVars>>

\* load returned: the log of the completion; or it raised: the handler.
AfterLoad ==
    /\ pc = "load"
    /\ ldPc \in {"returned", "raised"}
    /\ IF ldPc = "raised"
       THEN Fail(IF ldDf.ok THEN "DBError" ELSE "AttributeError")
       ELSE /\ cycOutcome' = "ok"
            /\ pc' = "schedule"
            /\ UNCHANGED <<exitCode, errLog>>
    /\ UNCHANGED <<trResult, storeVars, loadVars, exVars, env, firstRun, cycles, measurements,
                   locations, cycExtractFailed, cycStoreBefore, schedVars, stoppedIn>>

\* now = datetime.now(paris_tz); next_run = ...; sleep_time = ...; the log.
Schedule ==
    /\ pc = "schedule"
    /\ \E e \in Elapsed :
          /\ clock' = clock + e
          /\ nextRun' = NextRun(clock')
    /\ pc' = "sleep"
    /\ firstRun' = FALSE
    /\ UNCHANGED <<trResult, storeVars, loadVars, exVars, errLog, env, cycles, measurements,
                   locations, cycOutcome, cycExtractFailed, cycStoreBefore, exitCode,
                   stoppedIn>>

\* time.sleep(sleep_time) returns; run_etl() is called next.
Sleep ==
    /\ pc = "sleep"
    /\ clock' = clock + SleepTime(clock, nextRun)
    /\ pc' = "run"
    /\ UNCHANGED <<trResult, storeVars, loadVars, exVars, errLog, env, firstRun, cycles,
                   measurements, locations, cycOutcome, cycExtractFailed,
                   cycStoreBefore, exitCode, stoppedIn, nextRun>>

\* SIGINT: KeyboardInterrupt is raised where the main thread is. It is not an
\* Exception, so run_etl's handler lets it through; the handler around the
\* loop logs and calls sys.exit(0); nothing handles it around the first
\* run_etl() call.
Interrupt ==
    /\ pc \notin {"none", "exited"}
    /\ stoppedIn' = pc
    /\ pc' = "exited"
    /\ exitCode' = IF firstRun /\ pc \in CycleSteps \cup {"run"} THEN "130" ELSE "0"
    /\ UNCHANGED <<trResult, storeVars, loadVars, exVars, errLog, env, firstRun, cycles,
                   measurements, locations, cycOutcome, cycExtractFailed,
                   cycStoreBefore, schedVars>>

ProcessStart ==
    /\ pc = "run"
    /\ env \in Envs
    /\ firstRun = TRUE
    /\ cycles = 0
    /\ measurements = None
    /\ locations = None
    /\ trResult = NoTransform
    /\ cycOutcome = "none"
    /\ cycExtractFailed = FALSE
    /\ cycStoreBefore = <<>>
    /\ clock \in StartClocks
    /\ nextRun = 0
    /\ exitCode = "running"
    /\ stoppedIn = "none"

Init == StoreInit /\ LoadIdle /\ ExtractIdle /\ errLog = 0 /\ ProcessStart

Next ==
    \/ BeginCycle
    \/ CycExportRequest
    \/ CycDownloadAttempt
    \/ CycRetrySleep
    \/ AfterMeasurements
    \/ CycStationsRequest
    \/ AfterStations
    \/ TransformStep
    \/ CycLoadReconcile
    \/ CycLoadInsert
    \/ AfterLoad
    \/ Schedule
    \/ Sleep
    \/ Interrupt

Spec == Init /\ [][Next]_vars

----------------------------------------------------------------------------
(* The scheduler's computation alone, at every instant of SchedHours hours *)

InitNextRun ==
    /\ StoreInit /\ LoadIdle /\ ExtractIdle /\ errLog = 0
    /\ pc = "schedule"
    /\ env = GoodEnv
    /\ firstRun = TRUE
    /\ cycles = 1
    /\ measurements = None
    /\ locations = None
    /\ trResult = NoTransform
    /\ cycOutcome = "failed"
    /\ cycExtractFailed = FALSE
    /\ cycStoreBefore = StoreNow
    /\ clock \in 0..(SchedHours * HourTicks - 1)
    /\ nextRun = 0
    /\ exitCode = "running"
    /\ stoppedIn = "none"

SpecNextRun == InitNextRun /\ [][Schedule]_vars


----------------------------------------------------------------------------
(* The transformer alone: transform called on any pair of texts *)

TextsOver(headers, lines, maxLines) ==
    {<<>>, <<" ">>} \cup
    {<<h>> \o l : h \in headers, l \in UNION {[1..n -> lines] : n \in 0..maxLines}}

\* measurements_text: absent, empty, blank, or a header and data lines.
MeasurementTexts ==
    {None} \cup {Some(t) : t \in TextsOver({"H", "X"}, {"m1", "m2", "m3"}, MaxMeasLines)}

\* locations_text, likewise.
LocationTexts ==
    {None} \cup {Some(t) : t \in TextsOver({"S", "X"}, {"s1", "s2", "s3"}, MaxStationLines)}

\* df = transform(measurements_text, locations_text)
CallTransform ==
    /\ pc = "transform"
    /\ trResult = NoTransform
    /\ trResult' = Transform(measurements, locations)
    /\ errLog' = errLog + TransformLogged(trResult')
    /\ UNCHANGED <<storeVars, loadVars, exVars, pc, env, firstRun, cycles, measurements,
                   locations, cycOutcome, cycExtractFailed, cycStoreBefore, exitCode,
                   stoppedIn, schedVars>>

InitTransform ==
    /\ StoreInit /\ LoadIdle /\ ExtractIdle /\ errLog = 0
    /\ pc = "transform"
    /\ env = GoodEnv
    /\ firstRun = TRUE
    /\ cycles = 1
    /\ measurements \in MeasurementTexts
    /\ locations \in LocationTexts
    /\ trResult = NoTransform
    /\ cycOutcome = "none"
    /\ cycExtractFailed = FALSE
    /\ cycStoreBefore = StoreNow
    /\ clock = 0
    /\ nextRun = 0
    /\ exitCode = "running"
    /\ stoppedIn = "none"

SpecTransform == InitTransform /\ [][CallTransform]_vars

----------------------------------------------------------------------------
(* Claims about the loader (checked under SpecLoad) *)

IsPrefix(a, b) == Len(a) <= Len(b) /\ \A i \in DOMAIN a : a[i] = b[i]

\* The records of the call as they are inserted.
Incoming == TrimSiteNames(ldDf.val)

HeldNoKey ==
    \A i \in DOMAIN Incoming, j \in DOMAIN ldRowsBefore :
        Key(Incoming[i]) # Key(ldRowsBefore[j])

\* Records of df that no earlier record of df conflicts with.
FirstOfKey(df) == {i \in DOMAIN df : \A j \in 1..(i - 1) : ~SameKey(df[j], df[i])}

NullKeyed(df) == {i \in DOMAIN df : KeyHasNull(df[i])}

C3_ExistingRowsUntouched ==
    /\ ldPc # "idle" => IsPrefix(ldRowsBefore, tblRows)
    /\ ldPc = "returned" =>
          \A i \in DOMAIN Incoming :
              \E j \in DOMAIN tblRows :
                  tblRows[j] = Incoming[i] \/ SameKey(tblRows[j], Incoming[i])
    /\ (ldPc = "raised" /\ ldPhase = 2) => ldDbFault

\* A call returned that skipped a record whose key was in the table and
\* inserted another record of the same batch.
C3_Witness ==
    /\ ldPc = "returned"
    /\ ldInserted >= 1 /\ ldInserted < Len(ldDf.val)
    /\ \E i \in DOMAIN Incoming : Conflicts(ldRowsBefore, Incoming[i])

----------------------------------------------------------------------------
(* Claims about the extractor (checked under SpecFetch) *)

\* C5: when the export succeeded, a returned call of extract_measurements made
\* download attempts 1..k where attempts 1..k-1 failed; either attempt k was
\* 2xx, k <= max_retries, and the call returned that body trimmed, or every
\* attempt failed, k = max_retries, and the call returned None. No attempt
\* follows a 2xx attempt.
C5_RetryProtocol ==
    LET n == Len(exOutcomes) IN
    /\ exDownloadReqs = n
    /\ \A i \in 1..(n - 1) : ~exOutcomes[i]
    /\ (exKind = "measurements" /\ exPc = "returned" /\ ~exExportFailed) =>
          \/ /\ n \in 1..exMaxRetries
             /\ exOutcomes[n]
             /\ exResult = Some(Strip(exLastBody))
          \/ /\ n = exMaxRetries
             /\ \A i \in 1..n : ~exOutcomes[i]
             /\ exResult = None

\* The download failed twice and succeeded on the third attempt of more than
\* three allowed: the body is returned after three requests.
C5_Witness ==
    /\ exPc = "returned" /\ exResult.ok
    /\ exOutcomes = <<FALSE, FALSE, TRUE>>
    /\ exMaxRetries > 3 /\ exDownloadReqs = 3
    /\ exLastBody # Strip(exLastBody)

\* C6: a call of extract_measurements issues exactly one export request; when
\* it fails the call has returned None with no download request and no sleep.
C6_ExportNotRetried ==
    exKind = "measurements" =>
        /\ exExportReqs = (IF exPc \in {"idle", "export"} THEN 0 ELSE 1)
        /\ exExportFailed =>
              /\ exPc = "returned"
              /\ exResult = None
              /\ exDownloadReqs = 0
              /\ exSleeps = 0

\* A call whose export request failed.
C6_Witness ==
    /\ exKind = "measurements" /\ exExportFailed
    /\ exPc = "returned" /\ exExportReqs = 1 /\ errLog = 1

----------------------------------------------------------------------------
(* Claims about the cycle and the scheduler (checked under Spec, C9 under
   SpecNextRun) *)

\* C4: once an extraction call of a cycle has returned None, load is not
\* invoked in that cycle and the store (existence, columns, index, rows) is as
\* it was when the cycle started.
C4_NoLoadAfterExtractFailure ==
    cycExtractFailed => (ldPc = "idle" /\ StoreNow = cycStoreBefore)

\* The stations extraction of a cycle failed after its measurements
\* extraction succeeded, over a table an earlier cycle had filled.
C4_Witness ==
    /\ cycExtractFailed /\ measurements.ok /\ ~locations.ok
    /\ pc = "schedule" /\ cycOutcome = "failed"
    /\ tblRows # <<>>

InCycle == pc \in CycleSteps \cup {"run"}

\* C7: no exception leaves run_etl (the process never dies of one); the step
\* in which a cycle fails takes the process to the scheduling of the next
\* run, still running; and a cycle after the first starts only from the end
\* of the sleep, not before the instant the scheduler computed (next_run).
C7_FailureIsolated ==
    /\ [](exitCode # "1")
    /\ [][(InCycle /\ ~InCycle' /\ cycOutcome' = "failed" /\ stoppedIn' = "none")
            => (pc' = "schedule" /\ exitCode' = "running")]_vars
    /\ [][(cycles' = cycles + 1 /\ cycles >= 1)
            => (pc = "run" /\ ~firstRun /\ clock >= nextRun)]_vars

\* A second cycle is in flight, started at the scheduled instant, after a
\* first cycle that failed.
C7_Witness ==
    /\ cycles = 2 /\ pc = "extract_m" /\ cycOutcome = "failed"
    /\ clock = nextRun /\ exitCode = "running"

\* C8: with a configuration value missing or empty no cycle ever runs and the
\* scheduler is never reached: the process is at its start or has exited.
C8_ConfigErrorIsFatal ==
    MissingConfig(env) # {} => (cycles = 0 /\ pc \in {"run", "exited"})

IsTopOfHourPlusOne(t) == t % HourTicks = MinuteTicks

\* C9: the instant the scheduler computes from the clock reading has minute 1
\* and second 0, is strictly later than the reading, and no instant with
\* minute 1 and second 0 lies strictly between the two.
C9_NextRunIsNextSlot ==
    pc = "sleep" =>
        /\ IsTopOfHourPlusOne(nextRun)
        /\ nextRun > clock
        /\ \A h \in 0..(SchedHours + 2) :
              LET t == h * HourTicks + MinuteTicks
              IN  ~(clock < t /\ t < nextRun)

\* C10: an interrupt stops the process only at the sleep boundary (while it
\* sleeps, computes the next run, or is about to start a cycle), never at a
\* step of a cycle in flight.
C10_CancelOnlyAtSleep ==
    stoppedIn \in {"none", "sleep", "schedule", "run"}

----------------------------------------------------------------------------
(* Claims about schema reconciliation *)

\* C11: schema reconciliation is idempotent. In every state that follows a
\* reconciliation phase that completed, a second run of the phase with the
\* same record set raises nothing (no duplicate column-add, no duplicate
\* index-creation) and commits the columns and the index the table has. After
\* a phase that the store refused, a second run is refused again and changes
\* nothing either.
C11_ReconcileIdempotent ==
    LET again == Reconcile(ldDf)
    IN  /\ ldPc = "reconciled" =>
              /\ ~again.error
              /\ again.columns = tblColumns
              /\ again.index = idxExists
              /\ MissingColumns(ldDf.val, tblColumns) = {}
        /\ (ldPc = "raised" /\ ldPhase = 1 /\ ~ldDbFault) =>
              /\ again.error
              /\ again.columns = tblColumns
              /\ again.index = idxExists

\* A first load call has just reconciled a table that had the key columns
\* only: columns were added and the index exists.
C11_Witness ==
    /\ ldPc = "reconciled"
    /\ ~ldRepeat
    /\ tblRows = <<>>
    /\ idxExists
    /\ KeyColumns \subseteq tblColumns
    /\ tblColumns # KeyColumns

\* The type a field of the records gets when its column is added: integer,
\* floating-point, timestamp, otherwise text.
InferredType(df, name) ==
    CASE name \in {"start_time", "end_time"} -> "TIMESTAMP"
      [] name = "longitude" -> "FLOAT"
      [] name = "raw_value" ->
            IF \E i \in DOMAIN df : df[i].raw_value = NaT THEN "FLOAT" ELSE "INTEGER"
      [] OTHER -> "TEXT"

FieldNames == {DfColumnNames[i] : i \in DOMAIN DfColumnNames}

\* C15: schema reconciliation only adds. A reconciliation phase that completes
\* leaves a column set whose names are the previous names united with the
\* field names of the incoming records, keeps every previous column with its
\* name and type, gives every added column the type inferred from its field,
\* and leaves the unique index in place.
C15_ReconcileOnlyAdds ==
    [][(ldPc = "called" /\ ldPc' = "reconciled") =>
          /\ ColumnNames(tblColumns') = ColumnNames(tblColumns) \cup FieldNames
          /\ tblColumns \subseteq tblColumns'
          /\ \A c \in tblColumns' \ tblColumns :
                /\ c.name \notin ColumnNames(tblColumns)
                /\ c.type = InferredType(ldDf.val, c.name)
          /\ idxExists'
          /\ tblExists' = tblExists
          /\ tblRows' = tblRows]_vars

\* A reconciliation has added an integer, a floating-point, a text column and
\* created the index on a table that had the timestamp key columns.
C15_Witness ==
    /\ ldPc = "reconciled"
    /\ idxExists
    /\ [name |-> "raw_value", type |-> "INTEGER"] \in tblColumns
    /\ [name |-> "longitude", type |-> "FLOAT"] \in tblColumns
    /\ [name |-> "city", type |-> "TEXT"] \in tblColumns
    /\ [name |-> "start_time", type |-> "TIMESTAMP"] \in tblColumns

----------------------------------------------------------------------------
(* Claims about the transformer (checked under SpecTransform) *)

\* The measurement rows read from a measurements text.
MeasRows(mt) == [i \in DOMAIN DataLines(mt.val) |-> MeasLine(DataLines(mt.val)[i])]

\* The station codes of a stations text.
StationCodes(lt) == {StationLine(DataLines(lt.val)[i]).code : i \in DOMAIN DataLines(lt.val)}

\* C12: transform produces exactly one output record per input measurement
\* row, in the rows' order, for every stations table; a measurement whose site
\* code matches no station is retained with null city and longitude.
C12_OneRecordPerMeasurement ==
    trResult.kind = "ok" =>
        LET out == trResult.df.val
            rows == MeasRows(measurements)
        IN  /\ Len(out) = Len(rows)
            /\ \A i \in DOMAIN rows :
                  /\ out[i].site_name = rows[i].site
                  /\ out[i].raw_value = rows[i].raw
                  /\ rows[i].code \notin StationCodes(locations) =>
                        out[i].city = NaT /\ out[i].longitude = NaT

\* C13: transform returns None and logs one error entry whenever
\* measurements_text or locations_text is absent or empty, either one alone
\* being enough; nothing is parsed and no record is produced.
C13_FailureOnMissingText ==
    (/\ trResult # NoTransform
     /\ \/ ~measurements.ok \/ measurements.val = <<>>
        \/ ~locations.ok \/ locations.val = <<>>)
    => /\ trResult.kind = "none"
       /\ trResult.df = None
       /\ errLog = 1

\* transform was given an empty measurements text and a stations text with
\* data lines, and returned None.
C13_Witness ==
    /\ trResult.kind = "none"
    /\ measurements = Some(<<>>)
    /\ locations = Some(<<"S", "s1", "s2">>)
    /\ errLog = 1

----------------------------------------------------------------------------
(* Claims about a cycle's failures, order, suspension and exit (checked under Spec) *)

\* The step in which a cycle aborts: a step of run_etl raises and run_etl ends.
CycleAborts ==
    /\ pc \in CycleSteps \cup {"run"}
    /\ cycOutcome' = "failed"
    /\ pc' = "schedule" \/ exitCode' = "1"

\* C14: a failure always produces at least one error-level log entry. Every
\* cycle that aborts, whatever the failing step, has logged at least one
\* error-level entry when it ends.
C14_AbortLogsError == [][CycleAborts => errLog' >= 1]_vars

\* A cycle aborted in load (the table is missing or the store failed) and the
\* only error-level entry is the handler's.
C14_Witness ==
    /\ pc = "schedule"
    /\ cycOutcome = "failed"
    /\ ldPc = "raised"
    /\ errLog = 1

\* C17: every cycle terminates even if the provider never answers. No network
\* request of a cycle waits without bound: the export request, every download
\* attempt and the stations request give up after the per-attempt timeout.
C17_EveryRequestTimesOut == exPc # "blocked"

\* C18: cycle ordering and no overlap. The steps of a cycle start in the order
\* measurements extraction, stations extraction, transform, load, each only
\* after the previous one returned successfully; a cycle starts only from the
\* idle process, and the process is idle again only after the cycle in flight
\* logged its terminal outcome.
C18_OrderedNoOverlap ==
    [][/\ (pc' = "extract_m" /\ pc # "extract_m") =>
              pc = "run" /\ cycles' = cycles + 1
       /\ (pc' = "extract_s" /\ pc # "extract_s") =>
              pc = "extract_m" /\ exResult.ok /\ measurements' = exResult
       /\ (pc' = "transform" /\ pc # "transform") =>
              pc = "extract_s" /\ measurements.ok /\ exResult.ok /\ locations' = exResult
       /\ (pc' = "load" /\ pc # "load") =>
              /\ pc = "transform" /\ measurements.ok /\ locations.ok
              /\ trResult'.kind = "ok" /\ ldDf' = trResult'.df /\ ldPc' = "called"
       /\ (pc' = "schedule" /\ pc # "schedule") =>
              /\ pc \in CycleSteps \cup {"run"}
              /\ cycOutcome' \in {"ok", "failed"}
              /\ cycOutcome' = "ok" => pc = "load" /\ ldPc = "returned"
       /\ (pc' = "sleep" /\ pc # "sleep") => pc = "schedule"
       /\ (pc' = "run" /\ pc # "run") => pc = "sleep"
       /\ cycles' \in {cycles, cycles + 1}]_vars

\* A second cycle went through the four steps and ended with success.
C18_Witness ==
    /\ cycles = 2
    /\ pc = "schedule"
    /\ cycOutcome = "ok"
    /\ ldPc = "returned"
    /\ trResult.kind = "ok"

\* C19: the process exits with code 0 on an external interrupt whenever the
\* interrupt arrives: during the first run, a later cycle, or the sleep.
C19_InterruptExitsZero == stoppedIn # "none" => exitCode = "0"

\* C20: load is invoked in a cycle only if both extracted texts are non-empty.
\* An extraction call that gets an empty or whitespace-only 2xx body returns
\* the empty text, not None; a cycle that reaches transform with an empty text
\* aborts there, with no call of load and the store as the cycle found it.
C20_EmptyTextStopsBeforeLoad ==
    /\ [](pc = "load" =>
             /\ measurements.ok /\ measurements.val # <<>>
             /\ locations.ok /\ locations.val # <<>>)
    /\ []((exPc = "returned" /\ exResult.ok /\ \A i \in DOMAIN exLastBody : IsSpace(exLastBody[i]))
             => exResult = Some(<<>>))
    /\ [][(/\ pc = "transform" /\ pc' \notin {"transform", "exited"}
           /\ measurements.val = <<>> \/ locations.val = <<>>)
          => /\ pc' = "schedule"
             /\ cycOutcome' = "failed"
             /\ trResult'.kind = "none"
             /\ ldPc' = "idle"
             /\ StoreNow' = cycStoreBefore]_vars

\* A cycle got a whitespace-only measurements body, passed both extraction
\* checks, and was aborted by transform without a call of load.
C20_Witness ==
    /\ pc = "schedule"
    /\ cycOutcome = "failed"
    /\ measurements = Some(<<>>)
    /\ locations.ok /\ locations.val # <<>>
    /\ trResult.kind = "none"
    /\ ldPc = "idle"
    /\ StoreNow = cycStoreBefore

====
